---- MODULE Spec2Model ----
(***************************************************************************)
(* A model of rustifzm, the Z-machine core of rustif: the memory image     *)
(* (zmemory.rs), the header (zmachine/header.rs), the instruction decoder  *)
(* (zcpu/instructions.rs), the processing unit (zcpu.rs), the machine      *)
(* (zmachine.rs), the object database (zobjects.rs) and the text           *)
(* subsystem (zstring.rs).                                                 *)
(*                                                                         *)
(* Every operation of the code is an operator computing its result from    *)
(* its inputs, and an action that applies it to the current state and      *)
(* records the call and what it returned in `call` and `ret`.              *)
(***************************************************************************)
EXTENDS Integers, Sequences, FiniteSets, TLC

VARIABLES
    buffer,           \* ZMemory.buffer, the image's bytes
    header,           \* the ZMachineHeader built from the image, or NoHeader
    cpu,              \* the ZCpu built from the header, or NoCpu
    machine,          \* whether a ZMachine owns buffer, header and cpu (a load succeeded)
    objects,          \* the ZObjectsTable and the ZObject built from the image, if any
    debug_build,      \* whether the build traps integer overflow and checks debug
                      \* assertions (debug profile) or not (release profile)
    ncalls,           \* number of state-changing calls (writes, steps) made so far
    call,             \* the last operation called, with its arguments
    ret               \* what the last operation returned

vars == <<buffer, header, cpu, machine, objects, debug_build, ncalls, call, ret>>

-----------------------------------------------------------------------------
(* Bounds of the model.                                                    *)

\* Longest image of the unit-test pattern (zmemory.rs init_memory has 6 bytes).
MaxLen == 4
\* Write calls made on one image in the memory specification.
MaxWrites == 1
\* Bytes of code that follow the 64-byte header of a story image.
MaxCode == 2
\* Calls of step made on one processing unit.
MaxSteps == 2

-----------------------------------------------------------------------------
(* Machine integers.                                                       *)

\* Number of values of a u8.
U8 == 256
\* Number of values of a u16, the width of every ZMemoryAddress.
U16 == 65536

\* Marks an addition that overflowed in a build that traps overflow.
Overflow == -1

\* `x + y` on u16 operands: traps when overflow checks are on, wraps otherwise.
AddU16(x, y) ==
    IF x + y < U16 THEN x + y
    ELSE IF debug_build THEN Overflow ELSE (x + y) % U16

\* `x.wrapping_add(y)` on u16 operands.
WrappingAddU16(x, y) == (x + y) % U16

\* `x - y` on u8 operands: traps when overflow checks are on, wraps otherwise.
SubU8(x, y) ==
    IF x >= y THEN x - y
    ELSE IF debug_build THEN Overflow ELSE (x - y + U8) % U8

\* Bit i of x.
Bit(x, i) == (x \div (2 ^ i)) % 2

\* `x & m` and `x | m` on operands of up to 16 bits.
BitAnd(x, m) ==
    LET b(i) == Bit(x, i) * Bit(m, i) * (2 ^ i)
    IN  b(0) + b(1) + b(2) + b(3) + b(4) + b(5) + b(6) + b(7)
          + b(8) + b(9) + b(10) + b(11) + b(12) + b(13) + b(14) + b(15)

BitOr(x, m) == x + m - BitAnd(x, m)

\* `let x = first; Rest(x)`: first is evaluated once, then Rest on its value.
Then(first, Rest(_)) == CHOOSE r \in {Rest(x) : x \in {first}} : TRUE

-----------------------------------------------------------------------------
(* Results: ZmResult<T>, plus the abort of the program (a panic).          *)

NoAddr == [kind |-> "None", a |-> 0]

Ok(v) == [tag |-> "Ok", kind |-> "", val |-> v, addr |-> NoAddr]
Err(kind, v) == [tag |-> "Err", kind |-> kind, val |-> v, addr |-> NoAddr]
ErrAddr(kind, address) == [tag |-> "Err", kind |-> kind, val |-> 0, addr |-> address]
Panic(why) == [tag |-> "Panic", kind |-> why, val |-> 0, addr |-> NoAddr]

IsOk(r) == r.tag = "Ok"
IsErr(r, kind) == r.tag = "Err" /\ r.kind = kind
IsPanic(r) == r.tag = "Panic"

-----------------------------------------------------------------------------
(* ZMemoryAddress (zmemory.rs).                                            *)

AddressKinds == {"Byte", "Word", "RelativeWord", "Packed"}

Byte(a) == [kind |-> "Byte", a |-> a]
Word(a) == [kind |-> "Word", a |-> a]
RelativeWord(a) == [kind |-> "RelativeWord", a |-> a]
Packed(a) == [kind |-> "Packed", a |-> a]

\* ZMemoryAddress::as_byte
as_byte(address) ==
    IF address.kind = "Byte" THEN Ok(address.a)
    ELSE ErrAddr("MemoryInvalidAddress", address)

-----------------------------------------------------------------------------
(* ZMemory (zmemory.rs).                                                   *)
(*                                                                         *)
(* The Vec<u8> is held as its length, the byte most of its cells hold      *)
(* (fill) and the cells that hold another byte (data, indexed from 0), so  *)
(* that an image that fills the 16-bit address range is a small value.     *)
(* A vector has exactly one such representation: no cell of data holds     *)
(* fill.                                                                   *)

Restrict(f, S) == [x \in S |-> f[x]]

\* buffer.len()
BufLen(buf) == buf.len

\* buffer[i], for i < buffer.len()
BufAt(buf, i) == IF i \in DOMAIN buf.data THEN buf.data[i] ELSE buf.fill

\* buffer[i] = v, for i < buffer.len()
BufPut(buf, i, v) ==
    [buf EXCEPT !.data =
        IF v = buf.fill THEN Restrict(@, DOMAIN @ \ {i})
        ELSE [x \in DOMAIN @ \cup {i} |-> IF x = i THEN v ELSE @[x]]]

\* The vector of n bytes holding `fill` but for the cells of `data`.
MkBuffer(n, fill, data) ==
    [len |-> n, fill |-> fill,
     data |-> Restrict(data, {i \in DOMAIN data : i < n /\ data[i] # fill})]

\* ZMemory::read_byte
read_byte(buf, address) ==
    IF address.kind = "Byte" THEN
        IF address.a < BufLen(buf) THEN Ok(BufAt(buf, address.a))
        ELSE Err("MemoryInvalidAccess", address.a)
    ELSE ErrAddr("MemoryInvalidAddress", address)

\* ZMemory::read_word
read_word(buf, address) ==
    IF address.kind = "Word" THEN
        LET a == address.a
            a1 == AddU16(a, 1)
        IN  IF ~(a < BufLen(buf)) THEN Err("MemoryInvalidAccess", a)
            ELSE IF a1 = Overflow THEN Panic("attempt to add with overflow")
            ELSE IF ~(a1 < BufLen(buf)) THEN Err("MemoryInvalidAccess", a1)
            ELSE Ok(BufAt(buf, a) * 256 + BufAt(buf, a1))
    ELSE ErrAddr("MemoryInvalidAddress", address)

\* write_byte that takes an address of any kind for a byte address.
write_byte_any_kind(buf, address, value) ==
    IF address.a < BufLen(buf)
    THEN [res |-> Ok(0), buf |-> BufPut(buf, address.a, value)]
    ELSE [res |-> Err("MemoryInvalidAccess", address.a), buf |-> buf]

\* ZMemory::write_byte: the result and the buffer it leaves.
write_byte(buf, address, value) ==
    IF address.kind = "Byte" THEN
        IF address.a < BufLen(buf)
        THEN [res |-> Ok(0), buf |-> BufPut(buf, address.a, value)]
        ELSE [res |-> Err("MemoryInvalidAccess", address.a), buf |-> buf]
    ELSE [res |-> ErrAddr("MemoryInvalidAddress", address), buf |-> buf]

\* ZMemory::write_word: the result and the buffer it leaves.
write_word(buf, address, value) ==
    IF address.kind = "Word" THEN
        LET a == address.a
            first == write_byte(buf, Byte(a), BitAnd(value, 65280) \div 256)
            a1 == AddU16(a, 1)
        IN  IF ~IsOk(first.res) THEN first
            ELSE IF a1 = Overflow
                 THEN [res |-> Panic("attempt to add with overflow"), buf |-> first.buf]
            ELSE write_byte(first.buf, Byte(a1), BitAnd(value, 255))
    ELSE [res |-> ErrAddr("MemoryInvalidAddress", address), buf |-> buf]

-----------------------------------------------------------------------------
(* ZMachineVersion and the header flags (zmachine/header.rs).              *)

\* try_from with the range of versions one too long.
try_from_nine_versions(value) ==
    IF value \in 1..9 THEN [tag |-> "Ok", kind |-> "", val |-> value, addr |-> NoAddr]
    ELSE [tag |-> "Err", kind |-> "MachineUnknownVersion", val |-> value, addr |-> NoAddr]

\* TryFrom<u8> for ZMachineVersion: V1..V8 are held as 1..8.
try_from(value) ==
    IF value \in 1..8 THEN Ok(value)
    ELSE Err("MachineUnknownVersion", value)

\* ZMachineHeaderFlags1 (V1 to V3)
STATUS_LINE_TYPE == 2
STORY_SPLIT_DISCS == 4
STATUS_LINE_UNAVAILABLE == 16
SCREEN_SPLITTING_AVAILABLE == 32
VARIABLE_PITCH_FONT_IS_DEFAULT == 64
Flags1All ==
    STATUS_LINE_TYPE + STORY_SPLIT_DISCS + STATUS_LINE_UNAVAILABLE
        + SCREEN_SPLITTING_AVAILABLE + VARIABLE_PITCH_FONT_IS_DEFAULT

\* ZMachineHeaderFlags1Features (V4+)
AVAILABLE_COLORS == 1
AVAILABLE_PICTURE == 2
AVAILABLE_BOLDFACE == 4
AVAILABLE_ITALIC == 8
AVAILABLE_FIXED_SPACE == 16
AVAILABLE_SFX == 32
AVAILABLE_TIMED_INPUT == 128
Flags1FeaturesAll ==
    AVAILABLE_COLORS + AVAILABLE_PICTURE + AVAILABLE_BOLDFACE + AVAILABLE_ITALIC
        + AVAILABLE_FIXED_SPACE + AVAILABLE_SFX + AVAILABLE_TIMED_INPUT

\* ZMachineHeaderFlags2
ENABLE_TRANSCRIPTING == 1
FORCE_PRINTING_FIXED_PITCH == 2
MUST_REDRAW_SCREEN == 4
REQUEST_PICTURES == 8
REQUEST_UNDO_OPCODES == 16
REQUEST_MOUSE == 32
REQUEST_COLORS == 64
REQUEST_SFX == 128
REQUEST_MENUS == 256
Flags2All ==
    ENABLE_TRANSCRIPTING + FORCE_PRINTING_FIXED_PITCH + MUST_REDRAW_SCREEN
        + REQUEST_PICTURES + REQUEST_UNDO_OPCODES + REQUEST_MOUSE + REQUEST_COLORS
        + REQUEST_SFX + REQUEST_MENUS

\* Option::None for the two Flags1 fields and for an address.
None == -1

\* flags.contains(flag)
Contains(flags, flag) == BitAnd(flags, flag) = flag

\* ZMachineHeaderFlags2::allowed_flags; flags1 is None or the Flags1 features.
allowed_flags(version, flags1) ==
    LET base ==
            BitOr(BitOr(ENABLE_TRANSCRIPTING, REQUEST_COLORS),
                  IF version >= 3 THEN FORCE_PRINTING_FIXED_PITCH ELSE 0)
    IN  IF flags1 # None THEN
            BitOr(BitOr(base,
                  IF version >= 5 THEN
                      BitOr(BitOr(BitOr(REQUEST_UNDO_OPCODES, REQUEST_MOUSE),
                            IF Contains(flags1, AVAILABLE_PICTURE)
                            THEN REQUEST_PICTURES ELSE 0),
                            IF Contains(flags1, AVAILABLE_SFX) THEN REQUEST_SFX ELSE 0)
                  ELSE 0),
                  IF version >= 6 THEN REQUEST_MENUS ELSE 0)
        ELSE base

-----------------------------------------------------------------------------
(* ZMachineHeader (zmachine/header.rs).                                    *)

NoHeader == [version |-> 0]

\* The first result of a sequence that is not Ok (the `?` operator applied to
\* each in turn), or the last one.
FirstFailure(results) ==
    LET failed == {i \in 1..Len(results) : ~IsOk(results[i])}
    IN  IF failed = {} THEN results[Len(results)]
        ELSE results[CHOOSE i \in failed : \A j \in failed : i <= j]

\* ZMachineHeader::from_memory
from_memory(buf) ==
    LET version_raw == read_byte(buf, Byte(0))
        version == IF IsOk(version_raw) THEN try_from(version_raw.val) ELSE version_raw
        initial_pc_raw == read_word(buf, Word(6))
        base_high_memory == read_word(buf, Word(4))
        location_dictionary == read_word(buf, Word(8))
        location_object_table == read_word(buf, Word(10))
        location_global_variables_table == read_word(buf, Word(12))
        base_static_memory == read_word(buf, Word(14))
        location_abbreviations_table ==
            IF IsOk(version) /\ version.val >= 2 THEN read_word(buf, Word(24)) ELSE Ok(0)
        reads == FirstFailure(<<version_raw, version, initial_pc_raw, base_high_memory,
                                location_dictionary, location_object_table,
                                location_global_variables_table, base_static_memory,
                                location_abbreviations_table>>)
    IN  IF ~IsOk(reads) THEN reads
        ELSE Ok([version |-> version.val,
                 initial_pc |-> IF version.val >= 6 THEN Packed(initial_pc_raw.val)
                                ELSE Byte(initial_pc_raw.val),
                 flags1_old |-> None,
                 flags1 |-> None,
                 flags2 |-> 0,
                 base_high_memory |-> Byte(base_high_memory.val),
                 location_dictionary |-> Byte(location_dictionary.val),
                 location_object_table |-> Byte(location_object_table.val),
                 location_global_variables_table |->
                     Byte(location_global_variables_table.val),
                 base_static_memory |-> Byte(base_static_memory.val),
                 location_abbreviations_table |->
                     IF version.val >= 2 THEN Byte(location_abbreviations_table.val)
                     ELSE NoAddr])

\* reset, "set flags 1": the result, and the header and the buffer it leaves.
reset_flags1(hdr, buf) ==
    Then(read_byte(buf, Byte(1)), LAMBDA flags1_raw :
        IF ~IsOk(flags1_raw) THEN [res |-> flags1_raw, hdr |-> hdr, buf |-> buf]
        ELSE IF hdr.version >= 4 THEN
            Then(BitAnd(flags1_raw.val, Flags1FeaturesAll), LAMBDA flags1 :
            Then(write_byte(buf, Byte(1), flags1), LAMBDA w :
                [res |-> w.res, hdr |-> [hdr EXCEPT !.flags1 = flags1], buf |-> w.buf]))
        ELSE
            Then(BitAnd(BitAnd(BitAnd(flags1_raw.val, Flags1All), STATUS_LINE_TYPE),
                        STORY_SPLIT_DISCS), LAMBDA flags1_old :
            Then(write_byte(buf, Byte(1), flags1_old), LAMBDA w :
                [res |-> w.res, hdr |-> [hdr EXCEPT !.flags1_old = flags1_old],
                 buf |-> w.buf])))

\* "filter and set flags 2" that takes the symmetric difference of the flags
\* read and the allowed ones (^) for their intersection (&).
reset_flags2_xor(hdr, buf) ==
    Then(read_word(buf, Word(16)), LAMBDA flags2_raw :
        IF ~IsOk(flags2_raw) THEN [res |-> flags2_raw, hdr |-> hdr, buf |-> buf]
        ELSE
            Then(allowed_flags(hdr.version, hdr.flags1), LAMBDA allowed :
            Then(BitAnd(flags2_raw.val, Flags2All), LAMBDA raw :
            Then(BitOr(raw, allowed) - BitAnd(raw, allowed), LAMBDA flags2 :
            Then(write_word(buf, Word(16), flags2), LAMBDA w :
                [res |-> w.res, hdr |-> [hdr EXCEPT !.flags2 = flags2], buf |-> w.buf])))))

\* reset, "filter and set flags 2".
reset_flags2(hdr, buf) ==
    Then(read_word(buf, Word(16)), LAMBDA flags2_raw :
        IF ~IsOk(flags2_raw) THEN [res |-> flags2_raw, hdr |-> hdr, buf |-> buf]
        ELSE
            Then(BitAnd(BitAnd(flags2_raw.val, Flags2All),
                        allowed_flags(hdr.version, hdr.flags1)), LAMBDA flags2 :
            Then(write_word(buf, Word(16), flags2), LAMBDA w :
                [res |-> w.res, hdr |-> [hdr EXCEPT !.flags2 = flags2], buf |-> w.buf])))

\* reset, the stamp of the Standards revision 1.1 at 0x32 and 0x33.
reset_revision(hdr, buf) ==
    Then(write_byte(buf, Byte(50), 1), LAMBDA n :
        IF ~IsOk(n.res) THEN [res |-> n.res, hdr |-> hdr, buf |-> n.buf]
        ELSE Then(write_byte(n.buf, Byte(51), 1), LAMBDA m :
                [res |-> m.res, hdr |-> hdr, buf |-> m.buf]))

\* ZMachineHeader::reset: the result, and the header and the buffer it leaves.
reset(hdr, buf) ==
    Then(reset_flags1(hdr, buf), LAMBDA f1 :
        IF ~IsOk(f1.res) THEN f1
        ELSE Then(reset_flags2(f1.hdr, f1.buf), LAMBDA f2 :
                IF ~IsOk(f2.res) THEN f2
                ELSE reset_revision(f2.hdr, f2.buf)))

-----------------------------------------------------------------------------
(* The instruction decoder (zcpu/instructions.rs).                         *)

\* InstructionOperandCount
Fixed(n) == [fixed |-> TRUE, n |-> n]
VariableCount == [fixed |-> FALSE, n |-> 0]

\* from_opcode that takes 0xBE for the Extended form under every version.
from_opcode_any_version(opcode_msb, target) ==
    IF opcode_msb = 190 THEN "Extended"
    ELSE CASE BitAnd(opcode_msb, 192) = 192 -> "Variable"
           [] BitAnd(opcode_msb, 192) = 128 -> "Short"
           [] OTHER -> "Long"

\* InstructionForm::from_opcode
from_opcode(opcode_msb, target) ==
    IF opcode_msb = 190 /\ target >= 5 THEN "Extended"
    ELSE CASE BitAnd(opcode_msb, 192) = 192 -> "Variable"
           [] BitAnd(opcode_msb, 192) = 128 -> "Short"
           [] OTHER -> "Long"

\* next_byte that leaves the pc where it was.
next_byte_no_advance(buf, pc) == [res |-> read_byte(buf, Byte(pc)), pc |-> pc]

\* The byte source ZCpu::fetch_decoded_instruction hands to the decoder: the
\* byte at pc, and the pc it leaves.
next_byte(buf, pc) ==
    LET next == read_byte(buf, Byte(pc))
    IN  [res |-> next, pc |-> IF IsOk(next) THEN WrappingAddU16(pc, 1) ELSE pc]

\* Operation::decoded over that byte source: the result (an Operation), the
\* operand count it computed and the pc the byte source is left at.
decoded(target, buf, pc) ==
    LET first == next_byte(buf, pc)
        opcode_msb == first.res.val
        form == from_opcode(opcode_msb, target)
        second == next_byte(buf, first.pc)
    IN  IF ~IsOk(first.res)
        THEN [res |-> first.res, operands_count |-> Fixed(0), pc |-> first.pc]
        ELSE CASE form = "Short" ->
                    [res |-> Ok([form |-> form, opcode_number |-> BitAnd(opcode_msb, 15),
                                 operands |-> <<>>]),
                     operands_count |->
                        IF BitAnd(opcode_msb, 48) \div 16 = 0 THEN Fixed(0) ELSE Fixed(1),
                     pc |-> first.pc]
               [] form = "Long" ->
                    [res |-> Ok([form |-> form, opcode_number |-> BitAnd(opcode_msb, 31),
                                 operands |-> <<>>]),
                     operands_count |-> Fixed(2),
                     pc |-> first.pc]
               [] form = "Variable" ->
                    [res |-> Ok([form |-> form, opcode_number |-> BitAnd(opcode_msb, 31),
                                 operands |-> <<>>]),
                     operands_count |->
                        IF BitAnd(opcode_msb, 32) \div 32 = 0 THEN Fixed(2)
                        ELSE VariableCount,
                     pc |-> first.pc]
               [] form = "Extended" ->
                    IF ~IsOk(second.res)
                    THEN [res |-> second.res, operands_count |-> VariableCount,
                          pc |-> second.pc]
                    ELSE [res |-> Ok([form |-> form, opcode_number |-> second.res.val,
                                      operands |-> <<>>]),
                          operands_count |-> VariableCount,
                          pc |-> second.pc]

-----------------------------------------------------------------------------
(* ZCpu (zcpu.rs) and ZMachine (zmachine.rs).                              *)

NoCpu == [target |-> 0, pc |-> 0]

\* No objects table and no object built.
NoObjects == [table |-> <<>>, object |-> <<>>]

\* ZCpu::from_header
from_header(hdr) ==
    IF hdr.initial_pc.kind = "Byte"
    THEN Ok([target |-> hdr.version, pc |-> hdr.initial_pc.a])
    ELSE ErrAddr("MemoryInvalidAddress", hdr.initial_pc)

\* ZCpu::execute_decoded_instruction: the result and the buffer it leaves.
execute_decoded_instruction(c, buf, operation) == [res |-> Ok(0), buf |-> buf]

\* ZCpu::step: the result, and the cpu and the buffer it leaves.
step(c, buf) ==
    Then(decoded(c.target, buf, c.pc), LAMBDA operation :
    Then([c EXCEPT !.pc = operation.pc], LAMBDA fetched :
        IF ~IsOk(operation.res)
        THEN [res |-> operation.res, cpu |-> fetched, buf |-> buf]
        ELSE Then(execute_decoded_instruction(fetched, buf, operation.res.val),
                  LAMBDA executed :
                    [res |-> executed.res, cpu |-> fetched, buf |-> executed.buf])))

\* ZMachine::from_story_reader on a stream that delivers `image`, or fails to
\* be read: the result, and the memory, header and cpu of the ZMachine built.
from_story_reader(image, io_ok) ==
    LET none == [memory |-> image, header |-> NoHeader, cpu |-> NoCpu]
    IN  IF ~io_ok THEN [res |-> Err("MachineIO", 0)] @@ none
        ELSE Then(from_memory(image), LAMBDA hdr :
            IF ~IsOk(hdr) THEN [res |-> hdr] @@ none
            ELSE Then(reset(hdr.val, image), LAMBDA rst :
                IF ~IsOk(rst.res) THEN [res |-> rst.res] @@ none
                ELSE Then(from_header(rst.hdr), LAMBDA c :
                    IF ~IsOk(c) THEN [res |-> c] @@ none
                    ELSE IF hdr.val.version = 3
                         THEN [res |-> Ok(0), memory |-> rst.buf, header |-> rst.hdr,
                               cpu |-> c.val]
                    ELSE [res |-> Err("MachineUnsupportedVersion", hdr.val.version)]
                            @@ none)))

-----------------------------------------------------------------------------
(* The object database (zobjects.rs).                                      *)

\* `base + offset` on u16, then Rest on the sum; the abort when it overflows in
\* a build that traps overflow.
Offset(base, offset, Rest(_)) ==
    Then(AddU16(base, offset), LAMBDA sum :
        IF sum = Overflow THEN Panic("attempt to add with overflow") ELSE Rest(sum))

\* The values of a sequence of Ok results.
Values(results) == [i \in 1..Len(results) |-> results[i].val]

\* ZObjectsTable::from_memory_and_header
from_memory_and_header(buf, hdr) ==
    Then(hdr.location_object_table, LAMBDA address :
    Then(IF hdr.version >= 4 THEN 63 ELSE 31, LAMBDA property_defaults_size :
    Then(as_byte(address), LAMBDA address_as_byte :
        IF ~IsOk(address_as_byte) THEN address_as_byte
        ELSE Offset(address_as_byte.val, property_defaults_size * 2, LAMBDA end :
            Then([i \in 1..(IF end > address_as_byte.val
                            THEN (end - address_as_byte.val + 1) \div 2 ELSE 0) |->
                    read_word(buf, Word(address_as_byte.val + 2 * (i - 1)))],
                 LAMBDA reads :
                    IF reads # <<>> /\ ~IsOk(FirstFailure(reads)) THEN FirstFailure(reads)
                    ELSE Ok([address |-> address,
                             property_defaults |-> Values(reads)]))))))

\* ZObjectProperty::from_memory
property_from_memory(property_number, address, buf, version) ==
    IF version > 3 THEN Panic("not yet implemented")
    ELSE
    Then(read_byte(buf, address), LAMBDA size_byte :
        IF ~IsOk(size_byte) THEN size_byte
        ELSE Then(SubU8(size_byte.val, property_number), LAMBDA difference :
            IF difference = Overflow THEN Panic("attempt to subtract with overflow")
            ELSE Then(difference \div 32, LAMBDA length :
                IF debug_build /\ ~(1 <= length /\ length <= 8)
                THEN Panic("assertion failed: 1 <= length && length <= 8")
                ELSE Then([offset \in 1..length |->
                            Offset(address.a, offset,
                                   LAMBDA a : read_byte(buf, Byte(a)))],
                          LAMBDA reads :
                            IF reads # <<>> /\ ~IsOk(FirstFailure(reads))
                            THEN FirstFailure(reads)
                            ELSE Ok([address |-> address, index |-> property_number,
                                     length |-> length, data |-> Values(reads)])))))

\* ZObject::from_memory; the 32 attribute flags are held as their two 16-bit
\* halves, the most significant first.
object_from_memory(buf, index, address, version) ==
    Then(as_byte(address), LAMBDA address_as_byte :
        IF ~IsOk(address_as_byte) THEN address_as_byte
        ELSE IF version > 3 THEN Panic("not yet implemented")
        ELSE Then(address_as_byte.val, LAMBDA at :
            Then(<<Offset(at, 7, LAMBDA a : property_from_memory(1, Byte(a), buf, version)),
                   Offset(at, 8, LAMBDA a : property_from_memory(2, Byte(a), buf, version)),
                   read_word(buf, Word(at)),
                   Offset(at, 2, LAMBDA a : read_word(buf, Word(a))),
                   Offset(at, 4, LAMBDA a : read_byte(buf, Byte(a))),
                   Offset(at, 5, LAMBDA a : read_byte(buf, Byte(a))),
                   Offset(at, 6, LAMBDA a : read_byte(buf, Byte(a)))>>,
                 LAMBDA parts :
                    IF ~IsOk(FirstFailure(parts)) THEN FirstFailure(parts)
                    ELSE Ok([attribute_flags |-> <<parts[3].val, parts[4].val>>,
                             address |-> address,
                             index |-> index,
                             parent_index |-> parts[5].val,
                             sibling_index |-> parts[6].val,
                             child_index |-> parts[7].val,
                             properties |-> <<parts[1].val, parts[2].val>>]))))

\* ZObject::get_property
get_property(object, objects_table) == Panic("not yet implemented")

-----------------------------------------------------------------------------
(* ZSCII (zstring.rs).                                                     *)

\* DEFAULT_UNICODE_TABLE, as the code points of its characters.
DEFAULT_UNICODE_TABLE ==
    <<228, 246, 252, 196, 214, 220, 223, 187, 171, 235, 239, 255, 203, 207, 225, 233,
      237, 243, 250, 253, 193, 201, 205, 211, 218, 221, 224, 232, 236, 242, 249, 192,
      200, 204, 210, 217, 226, 234, 238, 244, 251, 194, 202, 206, 212, 219, 229, 197,
      248, 216, 227, 241, 245, 195, 209, 213, 230, 198, 231, 199, 254, 240, 222, 208,
      163, 339, 338, 161, 191>>

\* The code point of '\n'.
NewLine == 10

\* try_into with the ASCII range one code too long.
try_into_with_delete(code) ==
    CASE code = 0 -> [tag |-> "Ok", kind |-> "", val |-> -1, addr |-> NoAddr]
      [] code = 13 -> [tag |-> "Ok", kind |-> "", val |-> 10, addr |-> NoAddr]
      [] code \in 32..127 -> [tag |-> "Ok", kind |-> "", val |-> code, addr |-> NoAddr]
      [] OTHER -> [tag |-> "Err", kind |-> "StringInvalidZSCIICharacterCode",
                   val |-> code, addr |-> NoAddr]

\* TryInto<Option<char>> for ZSCII: Ok(None), Ok(the character's code point),
\* the fault, or the abort of an index past the end of the table.
try_into(code) ==
    CASE code = 0 -> Ok(None)
      [] code = 13 -> Ok(NewLine)
      [] code \in 32..126 -> Ok(code % U8)
      [] code \in 155..251 ->
            IF code - 155 < Len(DEFAULT_UNICODE_TABLE)
            THEN Ok(DEFAULT_UNICODE_TABLE[code - 155 + 1])
            ELSE Panic("index out of bounds")
      [] OTHER -> Err("StringInvalidZSCIICharacterCode", code)

-----------------------------------------------------------------------------
(* ZAlphabet (zstring.rs).                                                 *)

ZAlphabet == {"A0LowerCase", "A1UpperCase", "A2Punctuation"}

\* ZAlphabet::previous
previous(alphabet) ==
    CASE alphabet = "A0LowerCase" -> "A2Punctuation"
      [] alphabet = "A1UpperCase" -> "A0LowerCase"
      [] alphabet = "A2Punctuation" -> "A1UpperCase"

\* ZAlphabet::next
next(alphabet) ==
    CASE alphabet = "A0LowerCase" -> "A1UpperCase"
      [] alphabet = "A1UpperCase" -> "A2Punctuation"
      [] alphabet = "A2Punctuation" -> "A0LowerCase"

\* shifted_with_maybe_lock whose shift lock 5 turns the way 4 does.
shifted_with_maybe_lock_one_way(alphabet, shift_character) ==
    CASE shift_character = 2 -> Ok([alphabet |-> next(alphabet), lock |-> FALSE])
      [] shift_character = 3 -> Ok([alphabet |-> previous(alphabet), lock |-> FALSE])
      [] shift_character = 4 -> Ok([alphabet |-> next(alphabet), lock |-> TRUE])
      [] shift_character = 5 -> Ok([alphabet |-> next(alphabet), lock |-> TRUE])
      [] OTHER -> Err("StringInvalidAlphabetShiftCharacter", shift_character)

\* ZAlphabet::shifted_with_maybe_lock: the new alphabet and whether it locks.
shifted_with_maybe_lock(alphabet, shift_character) ==
    CASE shift_character = 2 -> Ok([alphabet |-> next(alphabet), lock |-> FALSE])
      [] shift_character = 3 -> Ok([alphabet |-> previous(alphabet), lock |-> FALSE])
      [] shift_character = 4 -> Ok([alphabet |-> next(alphabet), lock |-> TRUE])
      [] shift_character = 5 -> Ok([alphabet |-> previous(alphabet), lock |-> TRUE])
      [] OTHER -> Err("StringInvalidAlphabetShiftCharacter", shift_character)

-----------------------------------------------------------------------------
(* Inputs of the memory specification.                                     *)

\* The unit tests' image (init_memory: 1, 2, 3, ...), cut to n bytes.
TestImage(n) == MkBuffer(n, 0, [i \in 0..(n - 1) |-> i + 1])

\* Images that fill the 16-bit address range, and one byte more.
TopImages ==
    {MkBuffer(n, 0, [i \in {0, 1, U16 - 2, U16 - 1} |-> (i % 251) + 1]) : n \in {U16, U16 + 1}}

IsMemImage(image) ==
    \/ image \in {TestImage(n) : n \in 0..MaxLen}
    \/ image \in TopImages

\* Address values: around the test images and at the top of the u16 range.
AddrVals == 0..(MaxLen + 1) \cup {U16 - 2, U16 - 1}
Addresses == {[kind |-> k, a |-> a] : k \in AddressKinds, a \in AddrVals}

ByteVals == {0, 2, 255}
WordVals == {0, 515, 65280, 65535}

-----------------------------------------------------------------------------
(* Memory operations as steps of a program that owns a ZMemory.            *)

Running == ~IsPanic(ret)

ReadByte ==
    /\ Running
    /\ \E address \in Addresses :
        /\ call' = [op |-> "read_byte", address |-> address, value |-> 0]
        /\ ret' = read_byte(buffer, address)
    /\ UNCHANGED <<buffer, header, cpu, machine, objects, debug_build, ncalls>>

ReadWord ==
    /\ Running
    /\ \E address \in Addresses :
        /\ call' = [op |-> "read_word", address |-> address, value |-> 0]
        /\ ret' = read_word(buffer, address)
    /\ UNCHANGED <<buffer, header, cpu, machine, objects, debug_build, ncalls>>

WriteByte ==
    /\ Running
    /\ ncalls < MaxWrites
    /\ \E address \in Addresses, value \in ByteVals :
        LET w == write_byte(buffer, address, value)
        IN  /\ call' = [op |-> "write_byte", address |-> address, value |-> value]
            /\ ret' = w.res
            /\ buffer' = w.buf
    /\ ncalls' = ncalls + 1
    /\ UNCHANGED <<header, cpu, machine, objects, debug_build>>

WriteWord ==
    /\ Running
    /\ ncalls < MaxWrites
    /\ \E address \in Addresses, value \in WordVals :
        LET w == write_word(buffer, address, value)
        IN  /\ call' = [op |-> "write_word", address |-> address, value |-> value]
            /\ ret' = w.res
            /\ buffer' = w.buf
    /\ ncalls' = ncalls + 1
    /\ UNCHANGED <<header, cpu, machine, objects, debug_build>>

NoCall == [op |-> "none", address |-> NoAddr, value |-> 0]

MemInit ==
    /\ IsMemImage(buffer)
    /\ header = NoHeader
    /\ cpu = NoCpu
    /\ machine = FALSE
    /\ objects = NoObjects
    /\ debug_build \in BOOLEAN
    /\ ncalls = 0
    /\ call = NoCall
    /\ ret = Ok(0)

MemNext == ReadByte \/ ReadWord \/ WriteByte \/ WriteWord

SpecMem == MemInit /\ [][MemNext]_vars

-----------------------------------------------------------------------------
(* Story images: the inputs of the machine specification.                  *)

\* Length of the header (zmachine.rs: "decoded from the first 64 bytes").
HeaderLen == 64

HighByte(v) == v \div 256
LowByte(v) == v % 256

\* The image of n bytes with the given version byte, Flags1 byte, Flags2 word
\* and initial pc in its header, and `code` stored from address `at`.
StoryImage(n, version, flags1, flags2, pc, at, code) ==
    LET fields == (0 :> version) @@ (1 :> flags1)
                    @@ (6 :> HighByte(pc)) @@ (7 :> LowByte(pc))
                    @@ (16 :> HighByte(flags2)) @@ (17 :> LowByte(flags2))
        program == [i \in at..(at + Len(code) - 1) |-> code[i - at + 1]]
    IN  MkBuffer(n, 0, program @@ fields)

\* Lengths at which from_memory, reset and the load change outcome.
HeaderLens == {0, 1, 7, 8, 15, 16, 25, 26, 51, 52, 63, 64}

\* Every version byte, in images of every such length.
VersionImages ==
    {StoryImage(n, v, 0, 0, HeaderLen, HeaderLen, <<176>>) :
        n \in HeaderLens \cup {HeaderLen + 1}, v \in 0..(U8 - 1)}

Flags1Vals == {0, 2, 6, 32, 34, 255}
Flags2Vals == {2 ^ i : i \in 0..15} \cup {0, 511, 65535}

\* Every version with Flags1 and Flags2 set in many ways, with a whole header
\* and cut inside it.
FlagImages ==
    {StoryImage(n, v, f1, f2, HeaderLen, HeaderLen, <<>>) :
        n \in {17, 18, 51, HeaderLen}, v \in 1..8, f1 \in Flags1Vals, f2 \in Flags2Vals}

\* First opcode bytes: rtrue, rfalse, 0xBE, a Long form, a Short form with one
\* operand, the two Variable forms.
Opcodes == {176, 177, 190, 1, 143, 193, 224}

Codes == UNION {[1..k -> Opcodes] : k \in 0..MaxCode}

\* Programs of up to MaxCode bytes right after the header, entered at any of
\* their bytes or one past them.
ProgramImages ==
    {StoryImage(HeaderLen + Len(code), v, 0, 0, pc, HeaderLen, code) :
        v \in {3, 5, 6}, code \in Codes, pc \in HeaderLen..(HeaderLen + MaxCode)}

\* An image that fills the 16-bit address range, entered at its last byte.
TopProgramImages ==
    {StoryImage(U16, v, 0, 0, U16 - 1, U16 - 1, <<op>>) : v \in {3, 5}, op \in Opcodes}

IsStoryImage(image) ==
    \/ image \in VersionImages
    \/ image \in FlagImages
    \/ image \in ProgramImages
    \/ image \in TopProgramImages

-----------------------------------------------------------------------------
(* The header, the processing unit and the machine as steps of a client.   *)

\* ZMachineHeader::from_memory(&memory)
HeaderFromMemory ==
    /\ ~machine
    /\ header = NoHeader
    /\ call' = [op |-> "from_memory"]
    /\ ret' = from_memory(buffer)
    /\ header' = IF IsOk(ret') THEN ret'.val ELSE header
    /\ UNCHANGED <<buffer, cpu, machine, objects, debug_build, ncalls>>

\* header.reset(&mut memory)
HeaderReset ==
    /\ ~machine
    /\ header # NoHeader
    /\ \E r \in {reset(header, buffer)} :
           /\ call' = [op |-> "reset"]
           /\ ret' = r.res
           /\ header' = r.hdr
           /\ buffer' = r.buf
    /\ UNCHANGED <<cpu, machine, objects, debug_build, ncalls>>

\* ZCpu::from_header(&header)
CpuFromHeader ==
    /\ ~machine
    /\ header # NoHeader
    /\ cpu = NoCpu
    /\ call' = [op |-> "from_header"]
    /\ ret' = from_header(header)
    /\ cpu' = IF IsOk(ret') THEN ret'.val ELSE cpu
    /\ UNCHANGED <<buffer, header, machine, objects, debug_build, ncalls>>

\* ZMachine::from_story_reader(&mut reader), the stream holding `buffer`.
Load ==
    /\ ~machine
    /\ header = NoHeader
    /\ \E io_ok \in BOOLEAN :
        \E m \in {from_story_reader(buffer, io_ok)} :
            /\ call' = [op |-> "from_story_reader", io_ok |-> io_ok, image |-> buffer]
            /\ ret' = m.res
            /\ buffer' = m.memory
            /\ header' = m.header
            /\ cpu' = m.cpu
            /\ machine' = IsOk(m.res)
    /\ UNCHANGED <<objects, debug_build, ncalls>>

\* zmachine.step(), or cpu.step(&mut memory) on a cpu built from the header.
Step ==
    /\ cpu # NoCpu
    /\ ncalls < MaxSteps
    /\ \E s \in {step(cpu, buffer)} :
           /\ call' = [op |-> "step", pc |-> cpu.pc]
           /\ ret' = s.res
           /\ cpu' = s.cpu
           /\ buffer' = s.buf
    /\ ncalls' = ncalls + 1
    /\ UNCHANGED <<header, machine, objects, debug_build>>

Init ==
    /\ IsStoryImage(buffer)
    /\ header = NoHeader
    /\ cpu = NoCpu
    /\ machine = FALSE
    /\ objects = NoObjects
    /\ debug_build \in BOOLEAN
    /\ ncalls = 0
    /\ call = [op |-> "none"]
    /\ ret = Ok(0)

Next == HeaderFromMemory \/ HeaderReset \/ CpuFromHeader \/ Load \/ Step

Spec == Init /\ [][Next]_vars

-----------------------------------------------------------------------------
(* The functions of the decoder and of the text subsystem, each applied    *)
(* once to every input.                                                    *)

\* ZSCII codes: the 10-bit range, and the largest u16.
ZsciiCodes == 0..1023 \cup {U16 - 1}

\* InstructionForm::from_opcode(opcode_msb, target)
FromOpcode ==
    /\ call.op = "none"
    /\ \E opcode_msb \in 0..(U8 - 1), target \in 1..8 :
        /\ call' = [op |-> "from_opcode", opcode_msb |-> opcode_msb, target |-> target]
        /\ ret' = Ok(from_opcode(opcode_msb, target))
    /\ UNCHANGED <<buffer, header, cpu, machine, objects, debug_build, ncalls>>

\* ZSCII(code).try_into()
ZsciiTryInto ==
    /\ call.op = "none"
    /\ \E code \in ZsciiCodes :
        /\ call' = [op |-> "try_into", code |-> code]
        /\ ret' = try_into(code)
    /\ UNCHANGED <<buffer, header, cpu, machine, objects, debug_build, ncalls>>

\* Bytes that follow an instruction's first byte in the byte sources tried.
FollowBytes == {0, 5}

\* Byte sources: any first byte followed by up to MaxCode bytes, and the empty
\* source.
DecodeSources ==
    {<<>>} \cup
    {<<b>> \o rest : b \in 0..(U8 - 1),
                     rest \in UNION {[1..k -> FollowBytes] : k \in 0..MaxCode}}

\* The memory that holds `code` from address 0.
CodeBuffer(code) == MkBuffer(Len(code), 0, [i \in 0..(Len(code) - 1) |-> code[i + 1]])

\* Operation::decoded(target, next_byte), the byte source reading `code` from
\* its first byte. The call is recorded with the operand count the decoder
\* computed and the number of bytes it pulled from the source.
Decoded ==
    /\ call.op = "none"
    /\ \E target \in 1..8, code \in DecodeSources :
        \E d \in {decoded(target, CodeBuffer(code), 0)} :
            /\ call' = [op |-> "decoded", target |-> target, code |-> code,
                        operands_count |-> d.operands_count, pulled |-> d.pc]
            /\ ret' = d.res
    /\ UNCHANGED <<buffer, header, cpu, machine, objects, debug_build, ncalls>>

\* alphabet.shifted_with_maybe_lock(shift_character), a ZCharacter being a u8.
ShiftedWithMaybeLock ==
    /\ call.op = "none"
    /\ \E alphabet \in ZAlphabet, shift_character \in 0..(U8 - 1) :
        /\ call' = [op |-> "shifted_with_maybe_lock", alphabet |-> alphabet,
                    shift_character |-> shift_character]
        /\ ret' = shifted_with_maybe_lock(alphabet, shift_character)
    /\ UNCHANGED <<buffer, header, cpu, machine, objects, debug_build, ncalls>>

FnInit ==
    /\ buffer = MkBuffer(0, 0, <<>>)
    /\ header = NoHeader
    /\ cpu = NoCpu
    /\ machine = FALSE
    /\ objects = NoObjects
    /\ debug_build \in BOOLEAN
    /\ ncalls = 0
    /\ call = [op |-> "none"]
    /\ ret = Ok(0)

FnNext == FromOpcode \/ ZsciiTryInto \/ Decoded \/ ShiftedWithMaybeLock

SpecFn == FnInit /\ [][FnNext]_vars

-----------------------------------------------------------------------------
(* Claims about those functions, checked under SpecFn.                     *)

\* C5 as stated: for first opcode byte 0xBE the form is Extended under every
\* version >= 5 and Variable under every version < 5.
C5_FormOfBE ==
    (call.op = "from_opcode" /\ call.opcode_msb = 190)
    => ret.val = IF call.target >= 5 THEN "Extended" ELSE "Variable"

\* C5, amended: for first opcode byte 0xBE the form is Extended under every
\* version >= 5 and Short under every version < 5 (the top bits of 0xBE are 10).
C5_FormOfBEShort ==
    (call.op = "from_opcode" /\ call.opcode_msb = 190)
    => ret.val = IF call.target >= 5 THEN "Extended" ELSE "Short"

\* The form of 0xBE under version 4 was computed.
C5_Witness ==
    /\ call.op = "from_opcode"
    /\ call.opcode_msb = 190
    /\ call.target = 4
    /\ ret.val = "Short"

\* C7: every ZSCII code c in 32..126 converts to the character with ASCII code
\* c, code 0 to "no character", code 13 to newline, and every code outside
\* {0, 13, 32..126, 155..251} fails with the invalid-ZSCII fault.
C7_ZsciiConversion ==
    call.op = "try_into"
    => LET c == call.code
       IN  /\ (c \in 32..126 => ret = Ok(c))
           /\ (c = 0 => ret = Ok(None))
           /\ (c = 13 => ret = Ok(NewLine))
           /\ (c \notin ({0, 13} \cup (32..126) \cup (155..251))
                => IsErr(ret, "StringInvalidZSCIICharacterCode") /\ ret.val = c)

\* Code 127, the first past the ASCII range, was refused.
C7_Witness ==
    /\ call.op = "try_into"
    /\ call.code = 127
    /\ IsErr(ret, "StringInvalidZSCIICharacterCode")

\* C8: every ZSCII code in 155..251 converts to the character at index
\* code - 155 of the default Unicode table, and never faults or aborts.
C8_ExtraCharacters ==
    (call.op = "try_into" /\ call.code \in 155..251)
    => /\ IsOk(ret)
       /\ call.code - 155 < Len(DEFAULT_UNICODE_TABLE)
       /\ ret.val = DEFAULT_UNICODE_TABLE[call.code - 155 + 1]

-----------------------------------------------------------------------------
(* The object database as steps of a client that has decoded the header.   *)

\* Address of the objects table in the object images (right after the header),
\* and of the first object entry after the 31 words of the version 1-3 defaults.
ObjectTableAt == 64
FirstObjectAt == ObjectTableAt + 2 * 31

\* The n-th property default stored in the object images.
DefaultOf(n) == 256 + n

\* An image of `len` bytes of the given version: the header with the objects
\* table address at 0x0A, 63 property defaults, then (over the last defaults of a
\* version 4 table) one 9-byte object entry whose bytes 7 and 8 are s7 and s8,
\* followed by data bytes.
ObjectImage(len, version, s7, s8) ==
    LET hdr == (0 :> version) @@ (10 :> HighByte(ObjectTableAt))
                 @@ (11 :> LowByte(ObjectTableAt))
        defaults == [a \in ObjectTableAt..(ObjectTableAt + 2 * 63 - 1) |->
                        IF (a - ObjectTableAt) % 2 = 0
                        THEN HighByte(DefaultOf((a - ObjectTableAt) \div 2 + 1))
                        ELSE LowByte(DefaultOf((a - ObjectTableAt) \div 2 + 1))]
        entry == (FirstObjectAt :> 128) @@ (FirstObjectAt + 3 :> 1)
                   @@ (FirstObjectAt + 4 :> 1) @@ (FirstObjectAt + 5 :> 2)
                   @@ (FirstObjectAt + 6 :> 3)
                   @@ (FirstObjectAt + 7 :> s7) @@ (FirstObjectAt + 8 :> s8)
        data == [a \in (FirstObjectAt + 9)..(FirstObjectAt + 17) |-> 160 + (a - FirstObjectAt)]
    IN  MkBuffer(len, 0, hdr @@ entry @@ data @@ defaults)

\* Size bytes: the terminator, well-formed ones, multiples of 32, ones smaller
\* than the property number, the largest.
SizeBytes == {0, 1, 2, 32, 33, 34, 65, 66, 255}

\* A property table as R12.4 lays it out after the object's name: property 2
\* with one data byte, property 1 with two, and the terminator.
PropertyTable == <<2, 171, 33, 172, 173, 0>>

\* Address of that table in the images that hold it: right after the entry.
PropertyTableAt == FirstObjectAt + 9

\* An object image whose entry holds, in its bytes 7 and 8, the address of a
\* property table stored at that address.
ListedObjectImage(len, version) ==
    LET base == ObjectImage(len, version, HighByte(PropertyTableAt),
                            LowByte(PropertyTableAt))
        table == [a \in PropertyTableAt..(PropertyTableAt + Len(PropertyTable) - 1) |->
                    PropertyTable[a - PropertyTableAt + 1]]
    IN  MkBuffer(len, 0, table @@ base.data)

ObjectImages ==
    {ObjectImage(len, v, s7, s8) :
        len \in {FirstObjectAt + 8, FirstObjectAt + 10, FirstObjectAt + 18, 256},
        v \in 1..4, s7 \in SizeBytes, s8 \in SizeBytes}
    \cup {ListedObjectImage(len, v) :
            len \in {PropertyTableAt + Len(PropertyTable), 256}, v \in 1..3}

\* Property numbers handed to ZObjectProperty::from_memory.
PropertyNumbers == {1, 2, 31}

\* Addresses handed to it: bytes 7 and 8 of the entry, the byte after the
\* entry, and an address that is no byte address.
PropertyAddresses ==
    {Byte(FirstObjectAt + 7), Byte(FirstObjectAt + 8), Byte(PropertyTableAt),
     Byte(PropertyTableAt + 2), Word(FirstObjectAt + 7)}

\* Addresses handed to ZObject::from_memory: the entry, near the end of the
\* 16-bit range, and of a kind that is no byte address.
ObjectAddresses ==
    {Byte(FirstObjectAt), Byte(U16 - 8), Word(FirstObjectAt)}

\* ZObjectsTable::from_memory_and_header(&memory, &header)
ObjectsTableFromMemory ==
    /\ Running
    /\ objects.table = <<>>
    /\ call' = [op |-> "from_memory_and_header"]
    /\ ret' = from_memory_and_header(buffer, header)
    /\ objects' = IF IsOk(ret') THEN [objects EXCEPT !.table = ret'.val] ELSE objects
    /\ UNCHANGED <<buffer, header, cpu, machine, debug_build, ncalls>>

\* ZObject::from_memory(&memory, index, address, version)
ObjectFromMemory ==
    /\ Running
    /\ objects.object = <<>>
    /\ \E address \in ObjectAddresses :
        /\ call' = [op |-> "object_from_memory", address |-> address]
        /\ ret' = object_from_memory(buffer, 1, address, header.version)
    /\ objects' = IF IsOk(ret') THEN [objects EXCEPT !.object = ret'.val] ELSE objects
    /\ UNCHANGED <<buffer, header, cpu, machine, debug_build, ncalls>>

\* ZObjectProperty::from_memory(property_number, address, &memory, version)
PropertyFromMemory ==
    /\ Running
    /\ objects = NoObjects
    /\ call.op = "none"
    /\ \E property_number \in PropertyNumbers, address \in PropertyAddresses :
        /\ call' = [op |-> "property_from_memory", property_number |-> property_number,
                    address |-> address]
        /\ ret' = property_from_memory(property_number, address, buffer, header.version)
    /\ UNCHANGED <<buffer, header, cpu, machine, objects, debug_build, ncalls>>

\* object.get_property(&objects_table)
GetProperty ==
    /\ Running
    /\ objects.table # <<>>
    /\ objects.object # <<>>
    /\ call' = [op |-> "get_property"]
    /\ ret' = get_property(objects.object, objects.table)
    /\ UNCHANGED <<buffer, header, cpu, machine, objects, debug_build, ncalls>>

ObjInit ==
    /\ buffer \in ObjectImages
    /\ header = from_memory(buffer).val
    /\ cpu = NoCpu
    /\ machine = FALSE
    /\ objects = NoObjects
    /\ debug_build \in BOOLEAN
    /\ ncalls = 0
    /\ call = [op |-> "none"]
    /\ ret = Ok(0)

ObjNext == ObjectsTableFromMemory \/ ObjectFromMemory \/ GetProperty \/ PropertyFromMemory

SpecObj == ObjInit /\ [][ObjNext]_vars

-----------------------------------------------------------------------------
(* Claims about the object database, checked under SpecObj.                *)

\* The numbers of the properties an object holds.
Possessed(object) == {object.properties[i].index : i \in 1..Len(object.properties)}

\* The data of the property numbered n of an object that holds it.
OwnData(object, n) ==
    LET i == CHOOSE j \in 1..Len(object.properties) : object.properties[j].index = n
    IN  object.properties[i].data

\* C6: for every object and every property number n in the valid range,
\* get-property returns a value, not an abort: the object's own data bytes when
\* the object possesses property n, the n-th entry of the property-defaults
\* table otherwise.
C6_GetProperty ==
    call.op = "get_property"
    => /\ IsOk(ret)
       /\ \A n \in 1..Len(objects.table.property_defaults) :
            IF n \in Possessed(objects.object)
            THEN ret.val = OwnData(objects.object, n)
            ELSE ret.val = objects.table.property_defaults[n]

-----------------------------------------------------------------------------
(* Claims about the header and the machine, checked under Spec.            *)

\* C1 as stated: header decode returns version v for every image whose byte at
\* offset 0 is v in 1..8, and fails with the unknown-version fault carrying the
\* byte for every other byte at offset 0.
C1_DecodeVersion ==
    (call.op = "from_memory" /\ BufLen(buffer) >= 1)
    => LET v == BufAt(buffer, 0)
       IN  IF v \in 1..8 THEN IsOk(ret) /\ ret.val.version = v
           ELSE IsErr(ret, "MachineUnknownVersion") /\ ret.val = v

\* Bytes an image of version v must hold for from_memory to read all its words:
\* up to the word at 0x0E for V1, up to the word at 0x18 for V2 and later.
DecodedLen(v) == IF v >= 2 THEN 26 ELSE 16

\* C1, amended: header decode returns version v for every image whose byte at
\* offset 0 is v in 1..8 and which holds every header word decode reads (16
\* bytes for version 1, 26 bytes for versions 2..8); a shorter such image fails
\* with the out-of-bounds fault; for every other byte at offset 0 decode fails
\* with the unknown-version fault carrying that byte.
C1_DecodeVersionOfWholeHeader ==
    (call.op = "from_memory" /\ BufLen(buffer) >= 1)
    => LET v == BufAt(buffer, 0)
       IN  IF v \in 1..8 THEN
               IF BufLen(buffer) >= DecodedLen(v)
               THEN IsOk(ret) /\ ret.val.version = v /\ header = ret.val
               ELSE IsErr(ret, "MemoryInvalidAccess") /\ header = NoHeader
           ELSE IsErr(ret, "MachineUnknownVersion") /\ ret.val = v
                    /\ header = NoHeader

\* Version 8 was decoded from an image of just the 26 bytes decode reads.
C1_Witness ==
    /\ call.op = "from_memory"
    /\ BufLen(buffer) = DecodedLen(8)
    /\ BufAt(buffer, 0) = 8
    /\ IsOk(ret)
    /\ header.version = 8

\* C4: after a reset that succeeded, the Flags2 word stored at 0x10 is the one
\* the header holds and has no bit illegal for the version: no menus-request
\* bit below version 6, no pictures, undo, mouse, colors or sound request bit
\* below version 5, no force-fixed-pitch bit below version 3, and no bit outside
\* the 9 defined ones.
C4_Flags2Legal ==
    (call.op = "reset" /\ IsOk(ret))
    => LET v == header.version
           f == header.flags2
       IN  /\ read_word(buffer, Word(16)) = Ok(f)
           /\ (v < 6 => BitAnd(f, REQUEST_MENUS) = 0)
           /\ (v < 5 => BitAnd(f, REQUEST_PICTURES + REQUEST_UNDO_OPCODES + REQUEST_MOUSE
                                    + REQUEST_COLORS + REQUEST_SFX) = 0)
           /\ (v < 3 => BitAnd(f, FORCE_PRINTING_FIXED_PITCH) = 0)
           /\ BitAnd(f, (U16 - 1) - Flags2All) = 0

\* `image` is a version-3 image with a whole header whose initial-pc word
\* points at a "return true" opcode (0xB0) inside the image.
IsReturnTrueImage(image) ==
    /\ BufLen(image) >= HeaderLen
    /\ BufAt(image, 0) = 3
    /\ LET pc == BufAt(image, 6) * 256 + BufAt(image, 7)
       IN  pc < BufLen(image) /\ BufAt(image, pc) = 176

-----------------------------------------------------------------------------
(* Claims about the memory image, checked under SpecMem.                   *)

\* C2: word access is big-endian and round-trips: after write_word(Word(a), v)
\* with a and a+1 inside the buffer, the call returned Ok, read_byte(Byte(a)) is
\* the high byte of v, the byte at a+1 is the low byte of v (read_byte(Byte(a+1))
\* returns it) and read_word(Word(a)) returns v.
C2_WordRoundTrip ==
    (call.op = "write_word" /\ call.address.kind = "Word"
        /\ call.address.a + 1 < BufLen(buffer))
    => LET a == call.address.a
           v == call.value
       IN  /\ IsOk(ret)
           /\ read_byte(buffer, Byte(a)) = Ok(HighByte(v))
           /\ BufAt(buffer, a + 1) = LowByte(v)
           /\ (a + 1 < U16 => read_byte(buffer, Byte(a + 1)) = Ok(LowByte(v)))
           /\ read_word(buffer, Word(a)) = Ok(v)

\* C3: for a buffer of length n, read_byte(Byte(a)) returns buffer[a] for every
\* a < n and fails with the out-of-bounds fault for every a >= n, and
\* read_word(Word(n-1)) fails with the out-of-bounds fault.
C3_ReadBounds ==
    /\ (call.op = "read_byte" /\ call.address.kind = "Byte")
        => IF call.address.a < BufLen(buffer)
           THEN ret = Ok(BufAt(buffer, call.address.a))
           ELSE IsErr(ret, "MemoryInvalidAccess")
    /\ (call.op = "read_word" /\ call.address.kind = "Word"
            /\ call.address.a = BufLen(buffer) - 1)
        => IsErr(ret, "MemoryInvalidAccess")

IsWrite(c) == c.op \in {"write_byte", "write_word"}
WrongKind(c) ==
    \/ c.op \in {"read_byte", "write_byte"} /\ c.address.kind # "Byte"
    \/ c.op \in {"read_word", "write_word"} /\ c.address.kind # "Word"

\* C10: read_byte and write_byte fail with the invalid-address fault, carrying
\* the address, for every address that is not Byte-kind, read_word and write_word
\* for every address that is not Word-kind, and the writes leave the buffer as
\* it was.
C10_AddressKind ==
    [][WrongKind(call')
        => /\ IsErr(ret', "MemoryInvalidAddress")
           /\ ret'.addr = call'.address
           /\ (IsWrite(call') => buffer' = buffer)]_vars

\* A write_word on a Byte-kind address inside the buffer was refused.
C10_Witness ==
    /\ call.op = "write_word"
    /\ call.address.kind = "Byte"
    /\ call.address.a + 1 < BufLen(buffer)
    /\ IsErr(ret, "MemoryInvalidAddress")

\* C11: write_word is atomic for its caller: whenever it returns the
\* out-of-bounds fault (as for the word address of the last valid byte), no
\* byte of the buffer has changed.
C11_WriteWordAtomic ==
    [][(call'.op = "write_word" /\ IsErr(ret', "MemoryInvalidAccess"))
        => buffer' = buffer]_vars

-----------------------------------------------------------------------------
(* Claims about the run of the machine, checked under Spec.                *)

\* `image` is a version-5 story file with a whole header.
IsVersion5Story(image) == BufLen(image) >= HeaderLen /\ BufAt(image, 0) = 5

\* C12: the test harness's run: the load of a well-formed version-5 story file
\* succeeds, and each of the steps made afterwards returns without fault.
C12_HarnessRun ==
    /\ (call.op = "from_story_reader" /\ call.io_ok /\ IsVersion5Story(call.image))
        => IsOk(ret) /\ machine
    /\ (call.op = "step" /\ machine /\ IsVersion5Story(buffer)) => IsOk(ret)

\* C13: step faults atomically: whatever the version, the program counter and
\* the image, a step that returns a fault leaves the program counter and every
\* byte of memory as they were before the call.
C13_StepFaultAtomic ==
    [][(call'.op = "step" /\ ~IsOk(ret'))
        => cpu'.pc = cpu.pc /\ buffer' = buffer]_vars

\* Bytes an image must hold for reset to succeed: its last write is at 0x33.
ResetLen == 52

\* C14: the load of an image whose version byte is a known version other than
\* 3, long enough for header decode and reset, fails with the
\* unsupported-version fault naming that version and yields no machine.
C14_UnsupportedVersion ==
    (call.op = "from_story_reader" /\ call.io_ok
        /\ BufLen(call.image) >= ResetLen
        /\ BufAt(call.image, 0) \in (1..8) \ {3})
    => /\ IsErr(ret, "MachineUnsupportedVersion")
       /\ ret.val = BufAt(call.image, 0)
       /\ ~machine

-----------------------------------------------------------------------------
(* Claims about the decoder, checked under SpecFn.                         *)

\* C15: for every first byte of Long form, the decoded instruction holds
\* exactly two operands and the byte source has been advanced past them: more
\* than one byte was pulled in all.
C15_LongOperands ==
    (call.op = "decoded" /\ Len(call.code) >= 3
        /\ from_opcode(call.code[1], call.target) = "Long")
    => /\ IsOk(ret)
       /\ ret.val.form = "Long"
       /\ Len(ret.val.operands) = 2
       /\ call.pulled > 1

\* C16: the bytes 176 (rtrue) and 177 (rfalse) decode under every version as
\* Short-form instructions with opcode numbers 0 and 1 and no operand; and a
\* Short-form byte has no operand exactly when its bits 4-5 are 11, and one
\* operand otherwise.
C16_ShortOperands ==
    (call.op = "decoded" /\ Len(call.code) >= 2)
    => LET b == call.code[1]
           count == IF BitAnd(b, 48) = 48 THEN 0 ELSE 1
       IN  /\ (b \in {176, 177}
                => /\ IsOk(ret)
                   /\ ret.val.form = "Short"
                   /\ ret.val.opcode_number = b - 176
                   /\ call.operands_count = Fixed(0)
                   /\ Len(ret.val.operands) = 0)
           /\ (from_opcode(b, call.target) = "Short"
                => /\ IsOk(ret)
                   /\ call.operands_count = Fixed(count)
                   /\ Len(ret.val.operands) = count)

-----------------------------------------------------------------------------
(* Claims about the alphabets, checked under SpecFn.                       *)

\* C17: the version 1-2 alphabet shift: character 2 gives A0->A1, A1->A2,
\* A2->A0 and character 3 gives A0->A2, A1->A0, A2->A1, both without lock;
\* characters 4 and 5 give the targets of 2 and 3 with lock; every other
\* character fails with the invalid-shift-character fault carrying it.
C17_AlphabetShift ==
    call.op = "shifted_with_maybe_lock"
    => LET c == call.shift_character
           by2 == [A0LowerCase |-> "A1UpperCase", A1UpperCase |-> "A2Punctuation",
                   A2Punctuation |-> "A0LowerCase"]
           by3 == [A0LowerCase |-> "A2Punctuation", A1UpperCase |-> "A0LowerCase",
                   A2Punctuation |-> "A1UpperCase"]
       IN  /\ (c \in {2, 4} => ret = Ok([alphabet |-> by2[call.alphabet], lock |-> c = 4]))
           /\ (c \in {3, 5} => ret = Ok([alphabet |-> by3[call.alphabet], lock |-> c = 5]))
           /\ (c \notin 2..5
                => IsErr(ret, "StringInvalidAlphabetShiftCharacter") /\ ret.val = c)

\* From A2 the shift lock 5 gave A1, locked.
C17_Witness ==
    /\ call.op = "shifted_with_maybe_lock"
    /\ call.alphabet = "A2Punctuation"
    /\ call.shift_character = 5
    /\ ret = Ok([alphabet |-> "A1UpperCase", lock |-> TRUE])

-----------------------------------------------------------------------------
(* Claims about properties and objects, checked under SpecObj.             *)

\* The bytes buf[a], ..., buf[a + n - 1].
BytesAt(buf, a, n) == [i \in 1..n |-> BufAt(buf, a + i - 1)]

\* C18: version <= 3 property decoding: for every non-zero size byte s the
\* decoded property has number s mod 32, length (s div 32) + 1 and that many
\* data bytes, the ones that follow the size byte; a non-zero size byte that is
\* a multiple of 32 is refused with a fault, neither decoded nor aborting. (The
\* caller hands the decoder the number the size byte holds.)
C18_PropertyDecoding ==
    (call.op = "property_from_memory" /\ header.version <= 3
        /\ call.address.kind = "Byte"
        /\ call.address.a + 8 < BufLen(buffer)
        /\ BufAt(buffer, call.address.a) # 0
        /\ BufAt(buffer, call.address.a) % 32 \in {0, call.property_number})
    => LET s == BufAt(buffer, call.address.a)
       IN  IF s % 32 # 0
           THEN /\ IsOk(ret)
                /\ ret.val.index = s % 32
                /\ ret.val.length = (s \div 32) + 1
                /\ ret.val.data = BytesAt(buffer, call.address.a + 1, (s \div 32) + 1)
           ELSE ret.tag = "Err"

\* The properties stored from address a up to the first zero size byte, each
\* as R12.4.1 lays it out (size byte 32 * (length - 1) + number, then the data),
\* in stored order; at most n of them are walked.
RECURSIVE StoredProperties(_, _, _)
StoredProperties(buf, a, n) ==
    IF n = 0 \/ ~(a < BufLen(buf)) \/ BufAt(buf, a) = 0 THEN <<>>
    ELSE LET s == BufAt(buf, a)
             length == (s \div 32) + 1
         IN  <<[index |-> s % 32, length |-> length, data |-> BytesAt(buf, a + 1, length)]>>
                \o StoredProperties(buf, a + 1 + length, n - 1)

\* The image holds the entry of an object whose bytes 7-8 are the address of a
\* property table stored whole in the image.
HoldsPropertyTable(buf) ==
    /\ BufLen(buf) >= PropertyTableAt + Len(PropertyTable)
    /\ BufAt(buf, FirstObjectAt + 7) * 256 + BufAt(buf, FirstObjectAt + 8) = PropertyTableAt
    /\ BytesAt(buf, PropertyTableAt, Len(PropertyTable)) = PropertyTable

\* C19: version <= 3 object build: from the 9-byte record at the object's
\* address it takes the attributes from bytes 0-3, parent, sibling and child
\* from bytes 4, 5 and 6 and the word at bytes 7-8 as the address of the
\* properties table; the property list holds one property for each entry stored
\* from that address up to the first zero size byte, in stored order.
C19_ObjectBuild ==
    (call.op = "object_from_memory" /\ header.version <= 3
        /\ call.address = Byte(FirstObjectAt) /\ HoldsPropertyTable(buffer))
    => LET at == FirstObjectAt
           table == BufAt(buffer, at + 7) * 256 + BufAt(buffer, at + 8)
           built == [i \in 1..Len(ret.val.properties) |->
                        [index |-> ret.val.properties[i].index,
                         length |-> ret.val.properties[i].length,
                         data |-> ret.val.properties[i].data]]
       IN  /\ IsOk(ret)
           /\ ret.val.attribute_flags =
                <<BufAt(buffer, at) * 256 + BufAt(buffer, at + 1),
                  BufAt(buffer, at + 2) * 256 + BufAt(buffer, at + 3)>>
           /\ ret.val.parent_index = BufAt(buffer, at + 4)
           /\ ret.val.sibling_index = BufAt(buffer, at + 5)
           /\ ret.val.child_index = BufAt(buffer, at + 6)
           /\ built = StoredProperties(buffer, table, Len(PropertyTable))

-----------------------------------------------------------------------------
(* Claim about the loaded image, checked under Spec.                       *)

\* C20: every machine a load returned owns a memory image of at least 64
\* bytes, the whole header lying inside the buffer; and the load of an image
\* shorter than 64 bytes fails with a fault.
C20_WholeHeaderLoaded ==
    /\ machine => BufLen(buffer) >= HeaderLen
    /\ (call.op = "from_story_reader" /\ BufLen(call.image) < HeaderLen)
        => ret.tag = "Err" /\ ~machine

-----------------------------------------------------------------------------
(* Claims about the flags after a reset, checked under Spec.               *)

\* C21: after a reset on an image of version >= 4, the Flags1 features the
\* header holds and the byte written at 0x01 include the colors-available bit
\* (bit 0), whatever the byte at 0x01 was before.
C21_ColorsAvailable ==
    (call.op = "reset" /\ IsOk(ret) /\ header.version >= 4)
    => /\ header.flags1 # None
       /\ Contains(header.flags1, AVAILABLE_COLORS)
       /\ Contains(BufAt(buffer, 1), AVAILABLE_COLORS)

\* C22: after a reset on an image of version <= 3, the byte at 0x01 is the
\* byte it was before restricted to the status-line-type bit (bit 1) and the
\* story-split-across-discs bit (bit 2): both keep their value and every other
\* bit is cleared.
C22_OldFlags1Kept ==
    [][(call'.op = "reset" /\ IsOk(ret') /\ header.version <= 3)
        => BufAt(buffer', 1)
            = BitAnd(BufAt(buffer, 1), STATUS_LINE_TYPE + STORY_SPLIT_DISCS)]_vars

\* C23: reset is idempotent: whatever the version and the image, after a reset
\* that succeeded a second reset succeeds and leaves every byte of memory and
\* the Flags1 and Flags2 the header holds as the first one left them.
C23_ResetIdempotent ==
    (call.op = "reset" /\ IsOk(ret))
    => \E again \in {reset(header, buffer)} :
            /\ IsOk(again.res)
            /\ again.buf = buffer
            /\ again.hdr.flags1_old = header.flags1_old
            /\ again.hdr.flags1 = header.flags1
            /\ again.hdr.flags2 = header.flags2

\* A reset of a version-5 image that asked for every Flags2 bit and held every
\* Flags1 bit has changed the image, and a second reset succeeds on it.
C23_Witness ==
    /\ call.op = "reset"
    /\ IsOk(ret)
    /\ header.version = 5
    /\ header.flags1 = Flags1FeaturesAll
    /\ header.flags2 # 0
    /\ header.flags2 # Flags2All
    /\ BufAt(buffer, 51) = 1
    /\ IsOk(reset(header, buffer).res)

-----------------------------------------------------------------------------
(* Claim about the top of the address range, checked under SpecMem.        *)

\* C24: word access at the top of the 16-bit address range does not wrap: for
\* every word address a, read_word(Word(a)) and write_word(Word(a), v) return
\* the out-of-bounds fault whenever a + 1, computed without 16-bit wraparound,
\* is no index of the buffer; at a = 0xFFFF on a 0x10000-byte image they fault
\* and neither touch byte 0 nor abort.
C24_NoWrapAtTop ==
    [][(call'.op \in {"read_word", "write_word"} /\ call'.address.kind = "Word"
            /\ ~(call'.address.a + 1 < BufLen(buffer)))
        => /\ IsErr(ret', "MemoryInvalidAccess")
           /\ (call'.address.a > 0 /\ BufLen(buffer) > 0)
                => BufAt(buffer', 0) = BufAt(buffer, 0)]_vars

====
